---- MODULE Spec2Model ----
(***************************************************************************)
(* liveframe: an overlay window that is shown while the account is         *)
(* live-streaming.                                                         *)
(*                                                                         *)
(* Two state machines are modelled:                                        *)
(*   Spec      the status pipeline: the poller goroutine started by        *)
(*             IsLiveStreaming, the status channel, and the status-handler *)
(*             goroutine of main that drives WindowManager.SetVisible.     *)
(*             The cleanup goroutine of CreateBorderWindow and the message *)
(*             loop of main run beside them.                               *)
(*   FairSpec  Spec with every goroutine scheduled fairly.                 *)
(*   AuthSpec  GetOAuthClient, run synchronously at startup, with its      *)
(*             callback HTTP server and the token cache file.              *)
(*                                                                         *)
(* The repository holds four versions of IsLiveStreaming.  The variable    *)
(* `variant` selects the one that runs:                                    *)
(*   "timeout"    src/youtube.go              unbuffered, send times out   *)
(*   "search"     src/unnamed/part_001:14-79  unbuffered, Search.List      *)
(*   "buffered"   src/unnamed/part_001:94-189 capacity 1, last known,      *)
(*                                            recover                      *)
(*   "lastknown"  src/README.md:361-430       unbuffered, last known       *)
(***************************************************************************)
EXTENDS Integers, Sequences, FiniteSets, TLC

\* Bound on the number of queries the poller issues in one run.
MaxCycles == 5

None == "none"

\* A bool as it is logged with %v.
Str(b) == IF b THEN "true" ELSE "false"

Variants == {"timeout", "search", "buffered", "lastknown"}

VARIABLES
    variant,            \* which IsLiveStreaming runs
    ctxDone,            \* ctx.Done() is closed (signal.NotifyContext fired)
    pPc,                \* poller goroutine position
    lastKnownStatus,    \* var lastKnownStatus bool
    isLive,             \* isLive of the current cycle
    tickPending,        \* a tick is waiting in ticker.C
    cycles,             \* number of queries issued so far
    statusCh,           \* values buffered in statusCh
    closes,             \* number of close(statusCh) executed
    hPc,                \* status-handler goroutine position
    hVal,               \* isLive received by the handler
    visible,            \* overlay state as set through SetVisible
    lastSuccess,        \* history: result of the latest successful query
    cycleFailed,        \* history: the current cycle's query failed
    cycleEmit,          \* history: what the current cycle put on statusCh
    queryAfterCancel,   \* history: the loop started a query with ctx cancelled
    received,           \* history: values the handler received, in order
    changes             \* history: number of overlay state changes

pollVars == <<variant, ctxDone, pPc, lastKnownStatus, isLive, tickPending,
              cycles, statusCh, closes, hPc, hVal, visible, lastSuccess,
              cycleFailed, cycleEmit, queryAfterCancel, received, changes>>

VARIABLES
    forceAuth,          \* argument of GetOAuthClient
    cacheFile,          \* token.json
    initialCache,       \* history: token.json when GetOAuthClient was called
    refreshEndpointOk,  \* environment: the token endpoint would accept a refresh
    aPc,                \* GetOAuthClient position
    tok,                \* var tok *oauth2.Token
    code,               \* code received from codeChan
    client,             \* the Token wrapped by the returned client
    server,             \* the callback http.Server
    reqs,               \* the callback requests and their handlers
    wg,                 \* sync.WaitGroup counter
    refreshCalls,       \* history: refresh calls made to the token endpoint
    exchangeCalls,      \* history: code exchanges made at the token endpoint
    codesConsumed,      \* history: receives from codeChan
    saveResult          \* history: outcome of SaveToken

authVars == <<forceAuth, cacheFile, initialCache, refreshEndpointOk, aPc, tok,
              code, client, server, reqs, wg, refreshCalls, exchangeCalls,
              codesConsumed, saveResult>>

VARIABLES
    mPc,                \* main: before, in or after its message loop
    destroyed,          \* DestroyWindow(hwnd) has been called
    checkInterval       \* seconds between polls, as main passes it

mainVars == <<mPc, destroyed, checkInterval>>

vars == <<pollVars, authVars, mainVars>>

----------------------------------------------------------------------------
(* The status channel *)

\* make(chan bool) or make(chan bool, 1)
Cap == IF variant = "buffered" THEN 1 ELSE 0

\* the query is bound to apiCtx, a child of ctx
QueryUsesCtx == variant \in {"timeout", "buffered"}

\* the version keeps lastKnownStatus
TracksLastKnown == variant \in {"buffered", "lastknown"}

\* A send case of a select is ready: room in the buffer, or (unbuffered) the
\* handler is parked in its select.
CanSend == IF Cap = 0 THEN hPc = "select" ELSE Len(statusCh) < Cap

\* statusCh <- v.  Unbuffered: the value passes to the handler's
\* `case isLive, ok := <-statusCh`.
Deliver(v) ==
    IF Cap = 0
    THEN /\ hVal' = v
         /\ hPc' = "setvisible"
         /\ received' = Append(received, v)
         /\ UNCHANGED statusCh
    ELSE /\ statusCh' = Append(statusCh, v)
         /\ UNCHANGED <<hVal, hPc, received>>

----------------------------------------------------------------------------
(* Initial state of the pipeline *)

\* IsLiveStreaming(ctx, client, 5*time.Second) in the first main of
\* src/main.go, IsLiveStreaming(ctx, client, 30*time.Second) in the second.
CheckIntervals == {5, 30}

PollInit ==
    /\ variant \in Variants
    /\ ctxDone = FALSE
    /\ pPc = IF variant = "search" THEN "lookup" ELSE "check"
    /\ lastKnownStatus = FALSE
    /\ isLive = FALSE
    /\ tickPending = FALSE
    /\ cycles = 0
    /\ statusCh = <<>>
    /\ closes = 0
    /\ hPc = IF variant = "search" THEN "notstarted" ELSE "select"
    /\ hVal = FALSE
    /\ visible = FALSE
    /\ lastSuccess = None
    /\ cycleFailed = FALSE
    /\ cycleEmit = None
    /\ queryAfterCancel = FALSE
    /\ received = <<>>
    /\ changes = 0
    /\ mPc = IF variant = "search" THEN "notstarted" ELSE "loop"
    /\ destroyed = FALSE
    /\ checkInterval \in CheckIntervals

----------------------------------------------------------------------------
(* The environment *)

\* SIGINT / SIGTERM cancels the context.
\* log.Fatalf has ended the process.
ProcessExited == pPc = "fatal"

Cancel ==
    /\ ~ProcessExited
    /\ ~ctxDone
    /\ ctxDone' = TRUE
    /\ UNCHANGED <<variant, pPc, lastKnownStatus, isLive, tickPending, cycles,
                   statusCh, closes, hPc, hVal, visible, lastSuccess,
                   cycleFailed, cycleEmit, queryAfterCancel, received, changes>>
    /\ UNCHANGED authVars
    /\ UNCHANGED mainVars

\* The ticker puts a tick in ticker.C (capacity 1) until it is stopped.
Tick ==
    /\ pPc \notin {"lookup", "fatal", "done"}
    /\ ~tickPending
    /\ cycles < MaxCycles
    /\ tickPending' = TRUE
    /\ UNCHANGED <<variant, ctxDone, pPc, lastKnownStatus, isLive, cycles,
                   statusCh, closes, hPc, hVal, visible, lastSuccess,
                   cycleFailed, cycleEmit, queryAfterCancel, received, changes>>
    /\ UNCHANGED authVars
    /\ UNCHANGED mainVars

----------------------------------------------------------------------------
(* The poller goroutine of IsLiveStreaming *)

\* Search version, before the goroutine is started:
\* youtubeService.Channels.List(...).Mine(true).Do() returns the channel;
\* IsLiveStreaming starts the poller and returns, and main goes on to start
\* the status handler and enter its message loop.
ChannelLookupSucceeds ==
    /\ pPc = "lookup"
    /\ pPc' = "loop"
    /\ hPc' = "select"
    /\ mPc' = "loop"
    /\ UNCHANGED <<variant, ctxDone, lastKnownStatus, isLive, tickPending,
                   cycles, statusCh, closes, hVal, visible, lastSuccess,
                   cycleFailed, cycleEmit, queryAfterCancel, received,
                   changes>>
    /\ UNCHANGED <<destroyed, checkInterval>>
    /\ UNCHANGED authVars

\* Search version: the channel lookup returns an error or no channel:
\* log.Fatalf.
ChannelLookupFails ==
    /\ pPc = "lookup"
    /\ pPc' = "fatal"
    /\ UNCHANGED <<variant, ctxDone, lastKnownStatus, isLive, tickPending,
                   cycles, statusCh, closes, hPc, hVal, visible, lastSuccess,
                   cycleFailed, cycleEmit, queryAfterCancel, received,
                   changes>>
    /\ UNCHANGED authVars
    /\ UNCHANGED mainVars

\* checkAndUpdateStatus is entered (in the Search version, the body of
\* `case <-ticker.C`): the LiveBroadcasts.List / Search.List call is issued.
IssueQuery ==
    /\ pPc' = "query"
    /\ cycles' = cycles + 1
    /\ cycleFailed' = FALSE
    /\ cycleEmit' = None

\* "Perform an immediate check when starting": checkAndUpdateStatus()
StartQuery ==
    /\ pPc = "check"
    /\ IssueQuery
    /\ UNCHANGED <<variant, ctxDone, lastKnownStatus, isLive, tickPending,
                   statusCh, closes, hPc, hVal, visible, lastSuccess,
                   queryAfterCancel, received, changes>>
    /\ UNCHANGED authVars
    /\ UNCHANGED mainVars

\* Where the poller goes after `if err != nil`.
AfterError ==
    CASE variant = "timeout"   -> "sleep"
      [] variant = "search"    -> "loop"
      [] variant = "buffered"  -> "errsend"
      [] variant = "lastknown" -> "errsend"

\* Do() returns an error (API error, timeout of apiCtx, cancellation).
QueryFails ==
    /\ pPc = "query"
    /\ pPc' = AfterError
    /\ cycleFailed' = TRUE
    /\ UNCHANGED <<variant, ctxDone, lastKnownStatus, isLive, tickPending,
                   cycles, statusCh, closes, hPc, hVal, visible, lastSuccess,
                   cycleEmit, queryAfterCancel, received, changes>>
    /\ UNCHANGED authVars
    /\ UNCHANGED mainVars

\* The API call panics; only the buffered version recovers, in the deferred
\* function of checkAndUpdateStatus.
QueryPanics ==
    /\ pPc = "query"
    /\ variant = "buffered"
    /\ pPc' = "panicsend"
    /\ cycleFailed' = TRUE
    /\ UNCHANGED <<variant, ctxDone, lastKnownStatus, isLive, tickPending,
                   cycles, statusCh, closes, hPc, hVal, visible, lastSuccess,
                   cycleEmit, queryAfterCancel, received, changes>>
    /\ UNCHANGED authVars
    /\ UNCHANGED mainVars

\* Mutant of QuerySucceeds: lastKnownStatus is not updated on success.
QuerySucceedsKeepsLastKnown ==
    /\ pPc = "query"
    /\ QueryUsesCtx => ~ctxDone
    /\ \E live \in BOOLEAN :
          /\ isLive' = live
          /\ lastKnownStatus' = lastKnownStatus
          /\ lastSuccess' = Str(live)
    /\ pPc' = "send"
    /\ UNCHANGED <<variant, ctxDone, tickPending, cycles, statusCh, closes,
                   hPc, hVal, visible, cycleFailed, cycleEmit,
                   queryAfterCancel, received, changes>>
    /\ UNCHANGED authVars
    /\ UNCHANGED mainVars

\* Do() returns a response: isLive := len(Items) > 0.  A call bound to apiCtx
\* returns an error once ctx is cancelled.
QuerySucceeds ==
    /\ pPc = "query"
    /\ QueryUsesCtx => ~ctxDone
    /\ \E live \in BOOLEAN :
          /\ isLive' = live
          /\ lastKnownStatus' = IF TracksLastKnown THEN live ELSE lastKnownStatus
          /\ lastSuccess' = Str(live)
    /\ pPc' = "send"
    /\ UNCHANGED <<variant, ctxDone, tickPending, cycles, statusCh, closes,
                   hPc, hVal, visible, cycleFailed, cycleEmit,
                   queryAfterCancel, received, changes>>
    /\ UNCHANGED authVars
    /\ UNCHANGED mainVars

\* Where the poller goes after the select that sends lastKnownStatus.
AfterErrSend ==
    IF pPc = "errsend" /\ variant = "buffered" THEN "sleep" ELSE "loop"

\* select { case statusCh <- lastKnownStatus: ; case <-ctx.Done(): return ;
\*          default: }   on the error path and in the recover handler.
ErrSend ==
    /\ pPc \in {"errsend", "panicsend"}
    /\ \/ /\ CanSend
          /\ Deliver(lastKnownStatus)
          /\ cycleEmit' = Str(lastKnownStatus)
          /\ pPc' = AfterErrSend
       \/ /\ ctxDone
          /\ pPc' = "loop"
          /\ UNCHANGED <<statusCh, hVal, hPc, received, cycleEmit>>
       \/ /\ ~CanSend /\ ~ctxDone
          /\ pPc' = AfterErrSend
          /\ UNCHANGED <<statusCh, hVal, hPc, received, cycleEmit>>
    /\ UNCHANGED <<variant, ctxDone, lastKnownStatus, isLive, tickPending,
                   cycles, closes, visible, lastSuccess, cycleFailed,
                   queryAfterCancel, changes>>
    /\ UNCHANGED authVars
    /\ UNCHANGED mainVars

\* time.Sleep(1 * time.Second) after an error.
Sleep ==
    /\ pPc = "sleep"
    /\ pPc' = "loop"
    /\ UNCHANGED <<variant, ctxDone, lastKnownStatus, isLive, tickPending,
                   cycles, statusCh, closes, hPc, hVal, visible, lastSuccess,
                   cycleFailed, cycleEmit, queryAfterCancel, received, changes>>
    /\ UNCHANGED authVars
    /\ UNCHANGED mainVars

\* select { case statusCh <- isLive: ... }: the send case is taken.
SendStatus ==
    /\ pPc = "send"
    /\ CanSend
    /\ Deliver(isLive)
    /\ cycleEmit' = Str(isLive)
    /\ pPc' = "loop"
    /\ UNCHANGED <<variant, ctxDone, lastKnownStatus, isLive, tickPending,
                   cycles, closes, visible, lastSuccess, cycleFailed,
                   queryAfterCancel, changes>>
    /\ UNCHANGED authVars
    /\ UNCHANGED mainVars

\* `case <-ctx.Done(): return` of the sending select.  In the Search version
\* the select is in the goroutine's own body, so the return ends the
\* goroutine; in the others it ends checkAndUpdateStatus.
AfterSendCancelled == IF variant = "search" THEN "done" ELSE "loop"

\* Mutant of SendCancelled: the sending select has no ctx.Done() case.
SendIgnoresCancel ==
    /\ pPc = "send"
    /\ ctxDone
    /\ FALSE
    /\ UNCHANGED vars

SendCancelled ==
    /\ pPc = "send"
    /\ ctxDone
    /\ pPc' = AfterSendCancelled
    /\ UNCHANGED <<variant, ctxDone, lastKnownStatus, isLive, tickPending,
                   cycles, statusCh, closes, hPc, hVal, visible, lastSuccess,
                   cycleFailed, cycleEmit, queryAfterCancel, received, changes>>
    /\ UNCHANGED authVars
    /\ UNCHANGED mainVars

\* The versions whose sending select has `case <-time.After(10 * time.Second)`.
SendHasTimeout == variant = "timeout"

SendTimeout ==
    /\ pPc = "send"
    /\ SendHasTimeout
    /\ pPc' = "loop"
    /\ UNCHANGED <<variant, ctxDone, lastKnownStatus, isLive, tickPending,
                   cycles, statusCh, closes, hPc, hVal, visible, lastSuccess,
                   cycleFailed, cycleEmit, queryAfterCancel, received, changes>>
    /\ UNCHANGED authVars
    /\ UNCHANGED mainVars

\* for { select { case <-ticker.C: checkAndUpdateStatus() ...
\* The select takes the tick whether or not ctx.Done() is ready as well.
LoopTick ==
    /\ pPc = "loop"
    /\ tickPending
    /\ cycles < MaxCycles
    /\ tickPending' = FALSE
    /\ IssueQuery
    /\ queryAfterCancel' = (queryAfterCancel \/ ctxDone)
    /\ UNCHANGED <<variant, ctxDone, lastKnownStatus, isLive, statusCh,
                   closes, hPc, hVal, visible, lastSuccess, received, changes>>
    /\ UNCHANGED authVars
    /\ UNCHANGED mainVars

\* Mutant of LoopCancelled: the channel is closed and one more
\* checkAndUpdateStatus is run before the goroutine returns.
LoopCancelledThenChecks ==
    /\ pPc = "loop"
    /\ ctxDone
    /\ closes = 0
    /\ closes' = closes + 1
    /\ pPc' = "errsend"
    /\ UNCHANGED <<variant, ctxDone, lastKnownStatus, isLive, tickPending,
                   cycles, statusCh, hPc, hVal, visible, lastSuccess,
                   cycleFailed, cycleEmit, queryAfterCancel, received, changes>>
    /\ UNCHANGED authVars
    /\ UNCHANGED mainVars

\* ... case <-ctx.Done(): close(statusCh); return } }
LoopCancelled ==
    /\ pPc = "loop"
    /\ ctxDone
    /\ closes' = closes + 1
    /\ pPc' = "done"
    /\ UNCHANGED <<variant, ctxDone, lastKnownStatus, isLive, tickPending,
                   cycles, statusCh, hPc, hVal, visible, lastSuccess,
                   cycleFailed, cycleEmit, queryAfterCancel, received, changes>>
    /\ UNCHANGED authVars
    /\ UNCHANGED mainVars

----------------------------------------------------------------------------
(* The overlay and the status-handler goroutine of main *)

\* Mutant of SetVisible: the window is shown whatever `visible` is.
SetVisibleAlwaysShows(v) ==
    /\ visible' = TRUE
    /\ changes' = IF visible # TRUE THEN changes + 1 ELSE changes

\* Mutant of SetVisible: every call counts as a change of the overlay.
SetVisibleCountsEveryCall(v) ==
    /\ visible' = v
    /\ changes' = changes + 1

\* WindowManager.SetVisible: ShowWindow(SW_SHOW) or ShowWindow(SW_HIDE).
SetVisible(v) ==
    /\ visible' = v
    /\ changes' = IF visible # v THEN changes + 1 ELSE changes

\* case isLive, ok := <-statusCh  with ok, from the buffer.  (An unbuffered
\* receive is the other half of Deliver.)
HandlerReceives ==
    /\ hPc = "select"
    /\ Len(statusCh) > 0
    /\ hVal' = Head(statusCh)
    /\ statusCh' = Tail(statusCh)
    /\ received' = Append(received, Head(statusCh))
    /\ hPc' = "setvisible"
    /\ UNCHANGED <<variant, ctxDone, pPc, lastKnownStatus, isLive, tickPending,
                   cycles, closes, visible, lastSuccess, cycleFailed,
                   cycleEmit, queryAfterCancel, changes>>
    /\ UNCHANGED authVars
    /\ UNCHANGED mainVars

\* windowManager.SetVisible(isLive) is entered: wm.mu.Lock().  Only the handler
\* ever takes wm.mu, so the lock is free.
HandlerLocks ==
    /\ hPc = "setvisible"
    /\ hPc' = "locked"
    /\ UNCHANGED <<variant, ctxDone, pPc, lastKnownStatus, isLive,
                   tickPending, cycles, statusCh, closes, hVal, visible,
                   lastSuccess, cycleFailed, cycleEmit, queryAfterCancel,
                   received, changes>>
    /\ UNCHANGED authVars
    /\ UNCHANGED mainVars

\* The handler is inside SetVisible and holds wm.mu.
MuHeld == hPc = "locked"

\* ShowWindow(wm.hwnd, ...) and the deferred wm.mu.Unlock(), then back to the
\* select.  (wm.hwnd is never reset, so the hwnd == 0 return is not taken.)
HandlerSetVisible ==
    /\ MuHeld
    /\ SetVisible(hVal)
    /\ hPc' = "select"
    /\ UNCHANGED <<variant, ctxDone, pPc, lastKnownStatus, isLive, tickPending,
                   cycles, statusCh, closes, hVal, lastSuccess, cycleFailed,
                   cycleEmit, queryAfterCancel, received>>
    /\ UNCHANGED authVars
    /\ UNCHANGED mainVars

\* What the handler does to the overlay when it leaves its loop.
HandlerExit == UNCHANGED <<visible, changes>>

\* case isLive, ok := <-statusCh  with !ok: return.
HandlerClosed ==
    /\ hPc = "select"
    /\ closes > 0
    /\ statusCh = <<>>
    /\ HandlerExit
    /\ hPc' = "done"
    /\ UNCHANGED <<variant, ctxDone, pPc, lastKnownStatus, isLive, tickPending,
                   cycles, statusCh, closes, hVal, lastSuccess, cycleFailed,
                   cycleEmit, queryAfterCancel, received>>
    /\ UNCHANGED authVars
    /\ UNCHANGED mainVars

\* case <-ctx.Done(): return.
HandlerCancelled ==
    /\ hPc = "select"
    /\ ctxDone
    /\ HandlerExit
    /\ hPc' = "done"
    /\ UNCHANGED <<variant, ctxDone, pPc, lastKnownStatus, isLive, tickPending,
                   cycles, statusCh, closes, hVal, lastSuccess, cycleFailed,
                   cycleEmit, queryAfterCancel, received>>
    /\ UNCHANGED authVars
    /\ UNCHANGED mainVars

----------------------------------------------------------------------------
(* The cleanup goroutine of CreateBorderWindow and the message loop of main *)

\* <-ctx.Done(); win.DestroyWindow(hwnd).  wm.mu is not taken.
Cleanup ==
    /\ ~ProcessExited
    /\ ctxDone
    /\ ~destroyed
    /\ destroyed' = TRUE
    /\ UNCHANGED <<mPc, checkInterval>>
    /\ UNCHANGED pollVars
    /\ UNCHANGED authVars

\* The select of the message loop: case <-ctx.Done(): PostQuitMessage(0);
\* return.  The ticker case and the default case (PeekMessage, dispatch,
\* sleep 5 ms) go round the loop and change nothing here.
MainCancelled ==
    /\ mPc = "loop"
    /\ ctxDone
    /\ mPc' = "done"
    /\ UNCHANGED <<destroyed, checkInterval>>
    /\ UNCHANGED pollVars
    /\ UNCHANGED authVars

----------------------------------------------------------------------------
StartupStep ==
    \/ ChannelLookupSucceeds
    \/ ChannelLookupFails

PollerStep ==
    \/ StartQuery
    \/ QueryFails
    \/ QueryPanics
    \/ QuerySucceeds
    \/ ErrSend
    \/ Sleep
    \/ SendStatus
    \/ SendCancelled
    \/ SendTimeout
    \/ LoopTick
    \/ LoopCancelled

HandlerStep ==
    \/ HandlerReceives
    \/ HandlerLocks
    \/ HandlerSetVisible
    \/ HandlerClosed
    \/ HandlerCancelled

PollNext ==
    \/ Cancel
    \/ Tick
    \/ StartupStep
    \/ PollerStep
    \/ HandlerStep
    \/ Cleanup
    \/ MainCancelled

----------------------------------------------------------------------------
(* GetOAuthClient and the token cache file *)

\* Bound on the number of requests that reach /oauth2callback in one run.
MaxRequests == 2

\* A Token's expiry, in hours from now: usable iff it lies in the future.
ExpiryOffsets == {-1, 1}
RefreshTokens == {"", "r1"}
Tokens == [expiry : ExpiryOffsets, refreshToken : RefreshTokens]

Usable(t) == t.expiry > 0
Renewable(t) == t.refreshToken # ""

\* A zero oauth2.Token (no token).
NoToken == [expiry |-> 0, refreshToken |-> ""]

\* Contents of ~/.liveframe/token.json: no file, a file that does not decode,
\* or an encoded Token.
CacheFile(kind, token) == [kind |-> kind, token |-> token]
CacheFiles ==
    {CacheFile("missing", NoToken), CacheFile("corrupt", NoToken)}
        \cup {CacheFile("token", t) : t \in Tokens}

\* The `code` query parameter of a callback request ("" when absent).
Codes == {"", "c1"}

Requests == 1 .. MaxRequests

\* TokenFromFile: os.Open fails, or Decode fails, or the token is returned.
TokenFromFile(file) ==
    IF file.kind \in {"missing", "corrupt"}
    THEN [tok |-> NoToken, err |-> TRUE]
    ELSE [tok |-> file.token, err |-> FALSE]

\* oauth2.AccessTypeOffline, oauth2.ApprovalForce
AuthCodeURLOpts == {"offline", "force"}

\* The Token the token endpoint issues for a code obtained with these options.
ExchangedToken ==
    [expiry |-> 1,
     refreshToken |-> IF "offline" \in AuthCodeURLOpts THEN "r2" ELSE ""]

AuthInit ==
    /\ forceAuth \in BOOLEAN
    /\ cacheFile \in CacheFiles
    /\ initialCache = cacheFile
    /\ refreshEndpointOk \in BOOLEAN
    /\ aPc = "start"
    /\ tok = NoToken
    /\ code = None
    /\ client = NoToken
    /\ server = "none"
    /\ reqs = [i \in Requests |-> "none"]
    /\ wg = 0
    /\ refreshCalls = 0
    /\ exchangeCalls = 0
    /\ codesConsumed = 0
    /\ saveResult = None

\* Mutant of UsesCachedToken: the forceAuth test is inverted.
UsesCachedTokenInverted == forceAuth /\ ~TokenFromFile(cacheFile).err

\* if !forceAuth { tok, err := TokenFromFile(tokenPath); if err == nil { ...
UsesCachedToken == ~forceAuth /\ ~TokenFromFile(cacheFile).err

\* return config.Client(ctx, tok), nil   with the cached token
ReturnCached ==
    /\ aPc = "start"
    /\ UsesCachedToken
    /\ client' = TokenFromFile(cacheFile).tok
    /\ aPc' = "returned"
    /\ UNCHANGED <<forceAuth, cacheFile, initialCache, refreshEndpointOk, tok,
                   code, server, reqs, wg, refreshCalls, exchangeCalls,
                   codesConsumed, saveResult>>
    /\ UNCHANGED pollVars
    /\ UNCHANGED mainVars

\* "Starting new OAuth authentication flow": wg.Add(1), the handler is
\* registered, `go server.ListenAndServe()`, the browser is opened, and the
\* function blocks on <-codeChan.
StartFlow ==
    /\ aPc = "start"
    /\ ~UsesCachedToken
    /\ wg' = 1
    /\ server' = "starting"
    /\ aPc' = "wait_code"
    /\ UNCHANGED <<forceAuth, cacheFile, initialCache, refreshEndpointOk, tok,
                   code, client, reqs, refreshCalls, exchangeCalls,
                   codesConsumed, saveResult>>
    /\ UNCHANGED pollVars
    /\ UNCHANGED mainVars

\* server.ListenAndServe() binds :8080, or fails and the error is logged.
Listen ==
    /\ server = "starting"
    /\ \/ server' = "listening"
       \/ server' = "bindfailed"
    /\ UNCHANGED <<forceAuth, cacheFile, initialCache, refreshEndpointOk, aPc,
                   tok, code, client, reqs, wg, refreshCalls, exchangeCalls,
                   codesConsumed, saveResult>>
    /\ UNCHANGED pollVars
    /\ UNCHANGED mainVars

\* A request reaches /oauth2callback; its handler blocks on codeChan <- code.
Callback(i) ==
    /\ server = "listening"
    /\ reqs[i] = "none"
    /\ i > 1 => reqs[i - 1] # "none"
    /\ \E c \in Codes : reqs' = [reqs EXCEPT ![i] = c]
    /\ UNCHANGED <<forceAuth, cacheFile, initialCache, refreshEndpointOk, aPc,
                   tok, code, client, server, wg, refreshCalls, exchangeCalls,
                   codesConsumed, saveResult>>
    /\ UNCHANGED pollVars
    /\ UNCHANGED mainVars

\* code := <-codeChan  meets one handler's  codeChan <- code.
ReceiveCode(i) ==
    /\ aPc = "wait_code"
    /\ reqs[i] \in Codes
    /\ code' = reqs[i]
    /\ reqs' = [reqs EXCEPT ![i] = "respond"]
    /\ codesConsumed' = codesConsumed + 1
    /\ aPc' = "exchange"
    /\ UNCHANGED <<forceAuth, cacheFile, initialCache, refreshEndpointOk, tok,
                   client, server, wg, refreshCalls, exchangeCalls, saveResult>>
    /\ UNCHANGED pollVars
    /\ UNCHANGED mainVars

\* The handler writes "Authorization Successful", starts the shutdown
\* goroutine and returns.
Respond(i) ==
    /\ reqs[i] = "respond"
    /\ reqs' = [reqs EXCEPT ![i] = "grace"]
    /\ UNCHANGED <<forceAuth, cacheFile, initialCache, refreshEndpointOk, aPc,
                   tok, code, client, server, wg, refreshCalls, exchangeCalls,
                   codesConsumed, saveResult>>
    /\ UNCHANGED pollVars
    /\ UNCHANGED mainVars

\* After time.Sleep(2 * time.Second): server.Shutdown(ctx) closes the listener.
BeginShutdown(i) ==
    /\ reqs[i] = "grace"
    /\ reqs' = [reqs EXCEPT ![i] = "shutting"]
    /\ server' = "closed"
    /\ UNCHANGED <<forceAuth, cacheFile, initialCache, refreshEndpointOk, aPc,
                   tok, code, client, wg, refreshCalls, exchangeCalls,
                   codesConsumed, saveResult>>
    /\ UNCHANGED pollVars
    /\ UNCHANGED mainVars

\* A handler that has not returned keeps its connection active.
ActiveHandlers == {j \in Requests : reqs[j] \in Codes \cup {"respond"}}

\* server.Shutdown(ctx) returns when no connection is active or ctx is done;
\* then wg.Done().
EndShutdown(i) ==
    /\ reqs[i] = "shutting"
    /\ ActiveHandlers = {} \/ ctxDone
    /\ reqs' = [reqs EXCEPT ![i] = "finished"]
    /\ wg' = wg - 1
    /\ UNCHANGED <<forceAuth, cacheFile, initialCache, refreshEndpointOk, aPc,
                   tok, code, client, server, refreshCalls, exchangeCalls,
                   codesConsumed, saveResult>>
    /\ UNCHANGED pollVars
    /\ UNCHANGED mainVars

\* Mutant of Exchange: the error of config.Exchange is ignored and the flow
\* goes on to save the token it did not get.
ExchangeIgnoresError ==
    /\ aPc = "exchange"
    /\ exchangeCalls' = exchangeCalls + 1
    /\ \/ /\ code # ""
          /\ ~ctxDone
          /\ tok' = ExchangedToken
          /\ aPc' = "save"
       \/ /\ tok' = NoToken
          /\ aPc' = "save"
    /\ UNCHANGED <<forceAuth, cacheFile, initialCache, refreshEndpointOk, code,
                   client, server, reqs, wg, refreshCalls, codesConsumed,
                   saveResult>>
    /\ UNCHANGED pollVars
    /\ UNCHANGED mainVars

\* tok, err = config.Exchange(ctx, code)
Exchange ==
    /\ aPc = "exchange"
    /\ exchangeCalls' = exchangeCalls + 1
    /\ \/ /\ code # ""
          /\ ~ctxDone
          /\ tok' = ExchangedToken
          /\ aPc' = "save"
       \/ /\ tok' = NoToken
          /\ aPc' = "failed"
    /\ UNCHANGED <<forceAuth, cacheFile, initialCache, refreshEndpointOk, code,
                   client, server, reqs, wg, refreshCalls, codesConsumed,
                   saveResult>>
    /\ UNCHANGED pollVars
    /\ UNCHANGED mainVars

\* Mutant of SaveToken: the file is created and truncated but the token is
\* never encoded into it, and no error is reported.
SaveTokenWritesNothing(token) ==
    \/ /\ saveResult' = "ok"
       /\ cacheFile' = CacheFile("corrupt", NoToken)
    \/ /\ saveResult' = "open failed"
       /\ cacheFile' = cacheFile

\* SaveToken: MkdirAll or OpenFile fails (file untouched), or Encode fails
\* after O_TRUNC (file truncated), or the token is written.
SaveToken(token) ==
    \/ /\ saveResult' = "ok"
       /\ cacheFile' = CacheFile("token", token)
    \/ /\ saveResult' = "open failed"
       /\ cacheFile' = cacheFile
    \/ /\ saveResult' = "encode failed"
       /\ cacheFile' = CacheFile("corrupt", NoToken)

\* Mutant of Save: a SaveToken error is returned to the caller.
SaveFailureAborts ==
    /\ aPc = "save"
    /\ SaveToken(tok)
    /\ aPc' = IF saveResult' = "ok" THEN "wg_wait" ELSE "failed"
    /\ UNCHANGED <<forceAuth, initialCache, refreshEndpointOk, tok, code,
                   client, server, reqs, wg, refreshCalls, exchangeCalls,
                   codesConsumed>>
    /\ UNCHANGED pollVars
    /\ UNCHANGED mainVars

\* if err := SaveToken(tokenPath, tok); err != nil { log.Printf("Warning ...
Save ==
    /\ aPc = "save"
    /\ SaveToken(tok)
    /\ aPc' = "wg_wait"
    /\ UNCHANGED <<forceAuth, initialCache, refreshEndpointOk, tok, code,
                   client, server, reqs, wg, refreshCalls, exchangeCalls,
                   codesConsumed>>
    /\ UNCHANGED pollVars
    /\ UNCHANGED mainVars

\* wg.Wait(); return config.Client(ctx, tok), nil
ReturnClient ==
    /\ aPc = "wg_wait"
    /\ wg = 0
    /\ client' = tok
    /\ aPc' = "returned"
    /\ UNCHANGED <<forceAuth, cacheFile, initialCache, refreshEndpointOk, tok,
                   code, server, reqs, wg, refreshCalls, exchangeCalls,
                   codesConsumed, saveResult>>
    /\ UNCHANGED pollVars
    /\ UNCHANGED mainVars

\* SIGINT / SIGTERM during startup.
AuthCancel ==
    /\ ~ctxDone
    /\ ctxDone' = TRUE
    /\ UNCHANGED <<variant, pPc, lastKnownStatus, isLive, tickPending, cycles,
                   statusCh, closes, hPc, hVal, visible, lastSuccess,
                   cycleFailed, cycleEmit, queryAfterCancel, received, changes>>
    /\ UNCHANGED authVars
    /\ UNCHANGED mainVars

AuthNext ==
    \/ ReturnCached
    \/ StartFlow
    \/ Listen
    \/ \E i \in Requests : Callback(i)
    \/ \E i \in Requests : ReceiveCode(i)
    \/ \E i \in Requests : Respond(i)
    \/ \E i \in Requests : BeginShutdown(i)
    \/ \E i \in Requests : EndShutdown(i)
    \/ Exchange
    \/ Save
    \/ ReturnClient
    \/ AuthCancel

----------------------------------------------------------------------------
(* The two specifications *)

\* main has obtained its client: GetOAuthClient has returned.
AuthReturned ==
    /\ forceAuth = FALSE
    /\ cacheFile = CacheFile("token", ExchangedToken)
    /\ initialCache = cacheFile
    /\ refreshEndpointOk = TRUE
    /\ aPc = "returned"
    /\ tok = NoToken
    /\ code = None
    /\ client = ExchangedToken
    /\ server = "none"
    /\ reqs = [i \in Requests |-> "none"]
    /\ wg = 0
    /\ refreshCalls = 0
    /\ exchangeCalls = 0
    /\ codesConsumed = 0
    /\ saveResult = None

\* IsLiveStreaming has not been called yet.
PollNotStarted ==
    /\ variant = "timeout"
    /\ ctxDone = FALSE
    /\ pPc = "check"
    /\ lastKnownStatus = FALSE
    /\ isLive = FALSE
    /\ tickPending = FALSE
    /\ cycles = 0
    /\ statusCh = <<>>
    /\ closes = 0
    /\ hPc = "select"
    /\ hVal = FALSE
    /\ visible = FALSE
    /\ lastSuccess = None
    /\ cycleFailed = FALSE
    /\ cycleEmit = None
    /\ queryAfterCancel = FALSE
    /\ received = <<>>
    /\ changes = 0
    /\ mPc = "notstarted"
    /\ destroyed = FALSE
    /\ checkInterval = 0

Init == PollInit /\ AuthReturned

Next == PollNext

\* The status pipeline, after startup.
Spec == Init /\ [][Next]_vars

\* Every goroutine that can take a step is eventually scheduled, and a select
\* with several ready cases picks at random, so the ctx.Done() case of the
\* poll loop is not passed over forever.  The signal and the ticker are not
\* assumed to act.
FairSpec ==
    /\ Spec
    /\ WF_vars(StartupStep)
    /\ WF_vars(PollerStep)
    /\ SF_vars(LoopCancelled)
    /\ WF_vars(HandlerStep)
    /\ WF_vars(Cleanup)
    /\ WF_vars(MainCancelled)

\* GetOAuthClient, at startup.
AuthSpecInit == AuthInit /\ PollNotStarted

AuthSpec == AuthSpecInit /\ [][AuthNext]_vars

----------------------------------------------------------------------------
(* Properties of the status pipeline *)

\* C1: when a cycle's query has failed and the latest successful query
\* reported isLive = true, the failing cycle has put `true` on the status
\* channel by the time it ends (it emits neither false nor nothing).
C1_FailingCycleEmitsLastKnown ==
    (pPc = "loop" /\ cycleFailed /\ lastSuccess = "true" /\ ~ctxDone)
        => cycleEmit = "true"

\* C2: the status handler never terminates with the overlay left Visible:
\* it hides the overlay before leaving its loop.
C2_HandlerExitsHidden == hPc = "done" => ~visible

\* C3: the poller goroutine never terminates without having closed the status
\* channel, and never closes it twice.
C3_ClosesExactlyOnce ==
    /\ closes <= 1
    /\ pPc = "done" => closes = 1

\* C4: once the context is cancelled the poller loop never starts another
\* query, also when a tick and the cancellation are both pending at its select.
C4_NoQueryAfterCancel == ~queryAfterCancel

\* The sending select can be left with neither a receive by the consumer nor
\* cancellation: there is room in the buffer, or the select has a timeout.
SendEndsAlone == (Cap > 0 /\ CanSend) \/ ENABLED SendTimeout

\* C5: whenever the poller is handing a value to the consumer, the attempt
\* can end without the consumer receiving and without the context being
\* cancelled (immediately, or after a bounded wait that drops the value).
C5_BoundedHandOff == pPc = "send" => SendEndsAlone

\* The sequence of C10.
Feed == <<TRUE, TRUE, FALSE, FALSE, TRUE>>

\* The handler has received exactly Feed and applied all of it.
FedAndApplied == received = Feed /\ hPc \notin {"setvisible", "locked"}

\* C10 (as stated): feeding [true, true, false, false, true] to the handler
\* from Hidden gives exactly two overlay state changes and ends Visible.
C10_FeedTwoChanges == FedAndApplied => (changes = 2 /\ visible)

\* C10 (amended): feeding [true, true, false, false, true] to the handler from
\* Hidden gives exactly three overlay state changes (Hidden -> Visible ->
\* Hidden -> Visible) and ends Visible.
C10_FeedThreeChanges == FedAndApplied => (changes = 3 /\ visible)

C10_Witness == FedAndApplied /\ changes = 3 /\ visible /\ hPc = "select"

\* The handler holds a received value it has not yet applied to the overlay.
HandlerProcessing == hPc \in {"setvisible", "locked"}

\* The number of places where a sequence of values differs from the value
\* before it, starting from `prev`.
RECURSIVE Alternations(_, _)
Alternations(prev, seq) ==
    IF seq = <<>> THEN 0
    ELSE (IF Head(seq) # prev THEN 1 ELSE 0) + Alternations(Head(seq), Tail(seq))

\* The value the overlay tracks: the last value received, FALSE if none.
LastReceived == IF received = <<>> THEN FALSE ELSE received[Len(received)]

\* C11: whenever the handler is not in the middle of processing a value, the
\* overlay is visible exactly if the last value received from the status
\* channel is true (hidden if none was received), and the overlay has changed
\* state only where a received value differed from the one before it.
C11_VisibleTracksLastReceived ==
    ~HandlerProcessing =>
        /\ visible = LastReceived
        /\ changes = Alternations(FALSE, received)

\* The handler received true, false, false and applied all of it.
C11_Witness ==
    /\ received = <<TRUE, FALSE, FALSE>>
    /\ ~HandlerProcessing
    /\ ~visible
    /\ changes = 2

----------------------------------------------------------------------------
(* Properties of GetOAuthClient *)

\* The cache held an expired Token with a refresh token.
ExpiredRenewable(file) ==
    file.kind = "token" /\ ~Usable(file.token) /\ Renewable(file.token)

\* The cache held a Token whose expiry lies in the future.
UsableCached(file) == file.kind = "token" /\ Usable(file.token)

\* C6: for a cached Token that is expired and renewable, GetOAuthClient has
\* made exactly one refresh call when it returns, and never starts the
\* interactive flow without that one refresh attempt.
C6_RefreshBeforeInteractive ==
    ExpiredRenewable(initialCache) =>
        /\ aPc = "returned" => refreshCalls = 1
        /\ server # "none" => refreshCalls = 1

\* No refresh call, no code exchange, no callback listener.
NoNetwork == refreshCalls = 0 /\ exchangeCalls = 0 /\ server = "none"

\* C7 (as stated): for every cached Token whose expiry is in the future,
\* GetOAuthClient returns the client with no network call and no listener.
C7_UsableNoNetwork ==
    UsableCached(initialCache) =>
        /\ NoNetwork
        /\ aPc \in {"start", "returned"}
        /\ aPc = "returned" => client = initialCache.token

\* C7 (amended): for every cached Token whose expiry is in the future, and
\* with forceAuth false, GetOAuthClient returns the client wrapping that Token
\* with no network call and no listener.
C7_UsableNoNetworkUnlessForced ==
    (UsableCached(initialCache) /\ ~forceAuth) =>
        /\ NoNetwork
        /\ aPc \in {"start", "returned"}
        /\ aPc = "returned" => client = initialCache.token

C7_Witness ==
    /\ UsableCached(initialCache)
    /\ ~forceAuth
    /\ aPc = "returned"
    /\ client = initialCache.token
    /\ NoNetwork

\* C8: when the cached Token is expired and renewable and the token endpoint
\* accepts the refresh, the cache holds a Token with a future expiry when
\* GetOAuthClient returns, and no callback listener was started.
C8_RefreshPersisted ==
    (ExpiredRenewable(initialCache) /\ refreshEndpointOk /\ aPc = "returned")
        => /\ cacheFile.kind = "token"
           /\ Usable(cacheFile.token)
           /\ server = "none"

\* First run: no cache file, and GetOAuthClient has returned a client after
\* the interactive flow with one code consumed and exchanged.
FirstRunReturned ==
    /\ server # "none"
    /\ codesConsumed = 1
    /\ exchangeCalls = 1
    /\ client = ExchangedToken

\* The cache file holds the Token of the returned client, refresh token
\* included.
CacheHoldsClientToken ==
    /\ cacheFile = CacheFile("token", client)
    /\ Renewable(cacheFile.token)

\* C9 (as stated): with no cache file, whenever GetOAuthClient returns a
\* client, the interactive flow ran, exactly one code was consumed and
\* exchanged, and the cache file holds the exchanged Token.
C9_FirstRunCached ==
    (initialCache.kind = "missing" /\ aPc = "returned")
        => (FirstRunReturned /\ CacheHoldsClientToken)

\* C9 (amended): with no cache file, whenever GetOAuthClient returns a client,
\* the interactive flow ran, exactly one code was consumed and exchanged, and,
\* unless SaveToken failed, the cache file holds the exchanged Token with its
\* non-empty refresh token.
C9_FirstRunCachedIfSaved ==
    (initialCache.kind = "missing" /\ aPc = "returned")
        => /\ FirstRunReturned
           /\ saveResult = "ok" => CacheHoldsClientToken

C9_Witness ==
    /\ initialCache.kind = "missing"
    /\ aPc = "returned"
    /\ saveResult = "ok"
    /\ FirstRunReturned
    /\ CacheHoldsClientToken

\* C16: every value the handler receives is the poller's most recent
\* computation at the moment of receipt, never one the poller has already
\* superseded with a newer one.
C16_NeverStale ==
    [][Len(received') > Len(received) =>
          \/ lastSuccess' = None
          \/ Str(received'[Len(received')]) = lastSuccess']_vars

\* C17: no failed query ends the poll loop or the process: the process has not
\* been ended by log.Fatalf, and the poller goroutine has ended only if the
\* context was cancelled.
C17_QueryFailureNeverFatal ==
    /\ ~ProcessExited
    /\ pPc = "done" => ctxDone

\* The poller loop, the status-handler loop and the message loop have all
\* returned (or the process ended before they were started).
AllLoopsExited ==
    \/ ProcessExited
    \/ pPc = "done" /\ hPc = "done" /\ mPc = "done"

\* The loop has returned or was never started, or the goroutine that runs it
\* can take a step whatever the other goroutines do.
PollerNotStuck == pPc \in {"lookup", "fatal", "done"} \/ ENABLED PollerStep

HandlerNotStuck == hPc \in {"notstarted", "done"} \/ ENABLED HandlerStep

MainNotStuck == mPc \in {"notstarted", "done"} \/ ENABLED MainCancelled

CancelLeadsToExit == ctxDone ~> AllLoopsExited

C19_SetVisibleExcludesDestroy == destroyed => ~MuHeld

\* apiCtx, cancel := context.WithTimeout(ctx, 10*time.Second)
QueryTimeout == 10

\* case <-time.After(10 * time.Second)  in the sending select
SendWait == 10

\* C20: whenever a query is in flight its timeout is shorter than the poll
\* interval the program runs with, and whenever a value waits to be handed
\* off the bound on that wait is no longer than the poll interval.
C20_TimeoutsFitPollInterval ==
    variant = "timeout" =>
        /\ pPc = "query" => QueryTimeout < checkInterval
        /\ pPc = "send" => SendWait <= checkInterval

\* The result of the most recent successful query, false if none succeeded.
LastReading == IF lastSuccess = None THEN "false" ELSE lastSuccess

\* C21: in the versions that keep it, lastKnownStatus is the result of the
\* most recent successful query (false before the first success, unchanged by
\* a failed query); and every value the poller puts on the status channel
\* equals the result of the most recent successful query, or false if no
\* query has succeeded yet.
C21_EmitsLastSuccessfulReading ==
    /\ TracksLastKnown => Str(lastKnownStatus) = LastReading
    /\ cycleEmit # None => cycleEmit = LastReading

\* A cycle whose query failed has put the earlier successful reading, true,
\* on the channel.
C21_Witness ==
    /\ TracksLastKnown
    /\ cycleFailed
    /\ lastSuccess = "true"
    /\ cycleEmit = "true"
    /\ lastKnownStatus

\* The poller is at a statement that sends on statusCh.
AtSend == pPc \in {"send", "errsend", "panicsend"}

\* A step put a value on statusCh: into the buffer, or straight into the
\* hands of the handler.
Sends ==
    \/ Len(statusCh') > Len(statusCh)
    \/ Len(received') > Len(received) /\ statusCh' = statusCh

\* C23: no value is put on the status channel once it has been closed; and
\* only the poller goroutine closes the channel (leaving its loop) or sends on
\* it (from one of its sending selects).
C23_NoSendOnClosed ==
    [][/\ Sends => (closes = 0 /\ AtSend)
       /\ closes' # closes => (pPc = "loop" /\ pPc' = "done")]_vars

\* The poller has sent, the handler has received, and the channel was then
\* closed on cancellation.
C23_Witness ==
    /\ closes = 1
    /\ pPc = "done"
    /\ received # <<>>
    /\ cycleEmit # None

----------------------------------------------------------------------------
(* Failure paths of the interactive flow *)

\* A step of the goroutine that runs GetOAuthClient, once the flow has started.
FlowStep ==
    \/ \E i \in Requests : ReceiveCode(i)
    \/ Exchange
    \/ Save
    \/ ReturnClient

\* C12: when the callback listener has failed to bind its port, GetOAuthClient
\* has ended the flow with an error or can take a step of its own towards
\* that; it is not left waiting for an authorization code.
C12_BindFailureFatal ==
    server = "bindfailed" => (aPc = "failed" \/ ENABLED FlowStep)

\* config.Exchange has returned an error.
ExchangeFailed == exchangeCalls > 0 /\ tok = NoToken

\* C13: once the code exchange has failed, GetOAuthClient has returned the
\* error and no client, the token cache file is as it was when GetOAuthClient
\* was called and SaveToken never ran, and no second code is awaited or
\* exchanged.
C13_ExchangeFailureFatal ==
    ExchangeFailed =>
        /\ aPc = "failed"
        /\ client = NoToken
        /\ cacheFile = initialCache
        /\ saveResult = None
        /\ exchangeCalls = 1
        /\ codesConsumed = 1

\* A real code was exchanged and refused, over a cache that held a token.
C13_Witness ==
    /\ ExchangeFailed
    /\ aPc = "failed"
    /\ code = "c1"
    /\ ~ctxDone
    /\ initialCache.kind = "token"
    /\ cacheFile = initialCache

\* GetOAuthClient has returned, with a client or with an error.
GetOAuthClientReturned == aPc \in {"returned", "failed"}

\* The callback server holds no listening socket.
ListenerReleased == server \in {"none", "bindfailed", "closed"}

\* C14: on every exit path of GetOAuthClient the callback listener has been
\* released by the time GetOAuthClient returns.
C14_ListenerReleasedOnReturn == GetOAuthClientReturned => ListenerReleased

\* C15: the callback route delivers exactly one code, and however many
\* requests reach it, once a code has been consumed the flow is never stuck:
\* until GetOAuthClient returns, some step of GetOAuthClient, of a callback
\* handler or of the server shutdown can be taken without the context being
\* cancelled.
C15_OneCodeThenReturns ==
    /\ codesConsumed <= 1
    /\ (codesConsumed = 1 /\ ~GetOAuthClientReturned /\ ~ctxDone) =>
           \/ ENABLED FlowStep
           \/ \E i \in Requests :
                 ENABLED (Respond(i) \/ BeginShutdown(i) \/ EndShutdown(i))

\* The interactive grant flow has been started.
FlowRan == server # "none"

\* The cases in which the interactive flow is to run: forced, no Token could
\* be loaded, the Token is expired and cannot be renewed, or its refresh
\* fails.
FlowRequired ==
    \/ forceAuth
    \/ initialCache.kind # "token"
    \/ /\ initialCache.kind = "token"
       /\ ~Usable(initialCache.token)
       /\ \/ ~Renewable(initialCache.token)
          \/ ~refreshEndpointOk

\* C22: GetOAuthClient runs the interactive flow exactly if forceAuth is set,
\* the cached token cannot be loaded, the loaded Token is expired and not
\* renewable, or its refresh failed; otherwise it wraps the cached Token and
\* starts no listener.
C22_FlowRunsIffRequired ==
    aPc # "start" => (FlowRan <=> FlowRequired)

\* A step of a callback handler or of the shutdown goroutine it starts.
ServerStep ==
    \E i \in Requests : Respond(i) \/ BeginShutdown(i) \/ EndShutdown(i)

\* C24: when the context is cancelled while GetOAuthClient waits for the
\* authorization code or for the callback server to shut down, GetOAuthClient
\* is not left blocked: it can go on, or the shutdown it waits for can.
C24_CancelledFlowReturns ==
    (ctxDone /\ aPc \in {"wait_code", "wg_wait"}) =>
        (ENABLED FlowStep \/ ENABLED ServerStep)

\* SaveToken has returned an error.
SaveFailed == saveResult \in {"open failed", "encode failed"}

\* C25: after a successful exchange and a failed SaveToken, GetOAuthClient
\* never takes its error return; when it returns, the listener is shut down,
\* the client wraps the exchanged Token, and the cache file does not hold
\* that Token.
C25_SaveFailureNotFatal ==
    SaveFailed =>
        /\ aPc \in {"wg_wait", "returned"}
        /\ tok = ExchangedToken
        /\ cacheFile # CacheFile("token", ExchangedToken)
        /\ aPc = "returned" =>
              /\ client = ExchangedToken
              /\ server = "closed"

\* The file could be opened but not encoded, and GetOAuthClient has returned.
C25_Witness ==
    /\ saveResult = "encode failed"
    /\ aPc = "returned"
    /\ client = ExchangedToken
    /\ server = "closed"
    /\ cacheFile = CacheFile("corrupt", NoToken)

============================================================================
